---- MODULE Spec2Model ----
(***************************************************************************)
(* The SSH-tunnel connection manager (server/tunnel-manager.ts) and the    *)
(* incremental poller (server/poller.ts, held in src/server/index.ts from  *)
(* line 142 on) as one state machine.                                      *)
(*                                                                         *)
(* Node runs every callback to completion and drains the promise           *)
(* microtasks it queued before the next I/O or timer callback starts, so   *)
(* one action is one callback together with the promise continuations it   *)
(* releases, up to the next await of an I/O operation.                     *)
(* Time is counted in minutes.                                             *)
(***************************************************************************)
EXTENDS Integers, Sequences, FiniteSets, TLC

\* ------------------------------------------------------------------ bounds
Instances == {"i1", "i2"}      \* instance ids
Ext == {"e1", "e2"}            \* API read-path callers of getPoolForInstance
Clients == {"c1", "c2"}        \* HTTP requests to POST /api/instances/:id/sync
Passes == Instances \cup {"cyc"} \* pollInstance runs: manual per id, and the sweep's
Callers == Ext \cup Passes
TunnelIds == {"i1"}            \* the instance the API read path asks for
SyncIds == {"i1"}              \* the id manual syncs are requested for
RowCounts == {0, 600}          \* sizes of a remote result set, the rows below aside
Execs == {"x1", "x2"}          \* execution ids of the remote rows that are followed
Versions == {1, 2}             \* successive contents of a remote row
DataIds == {"i1"}              \* the instance whose remote rows are followed
Probes == {"t1"}               \* concurrent test-connection requests
Skews == {-5, 0, 5}            \* remote clock minus local clock, minutes
MaxSessions == 2               \* createTunnel calls (SSH clients) per run
MaxTime == 10                  \* the clock stops here
ClockStep == 10                \* minutes between two observations of the clock
MaxSyncs == 2                  \* manual sync passes started per instance
MaxCycles == 2                 \* poll cycles started per run

Sids == 1..MaxSessions
Ports == 1..MaxSessions        \* ephemeral ports

\* ------------------------------------------------------- program constants
IDLE_TIMEOUT_MIN == 10
BATCH_SIZE == 500
CLOCK_SKEW_MINUTES == 5
INITIAL_LOOKBACK_DAYS == 30
NULL == -1                     \* SQL NULL / JS null in a numeric column

VARIABLES
  tunnels,         \* Map<string, TunnelEntry>: id -> entry (sid 0: absent)
  pendingTunnels,  \* Map<string, Promise<TunnelEntry>>: id -> creation (0: absent)
  sess,            \* every SSHClient made by createTunnel, with its listener and pool
  timers,          \* the idle timers scheduled with setTimeout and not yet cleared
  now,             \* Date.now(), minutes
  waitOn,          \* caller -> the createTunnel promise its getPoolForInstance awaits
  ext,             \* the API read-path callers and what getPoolForInstance gave them
  instances,       \* rows of n8n_instances (ids)
  syncStatus,      \* rows of sync_status, by instance id
  isPolling,       \* poller.ts: let isPolling
  pollTimer,       \* poller.ts: let pollTimer (TRUE: an interval is set)
  poller,          \* where startPoller() stands
  cycle,           \* the running pollAllInstances call
  pass,            \* the pollInstance runs in flight
  pendingSyncs,    \* Map<string, Promise<void>>: id -> a manual sync is pending
  syncSeq,         \* manual syncs started so far, per id
  cl,              \* the callers of triggerSyncForInstance and what they got
  lastReq,         \* what the latest pollAllInstances call did: started or skipped
  nCycles,         \* poll cycles started so far
  inflight,        \* pollInstance calls that have not returned, per id and origin
  remote,          \* n8n_execution_logs of each instance's database: exec id -> row
  cache,           \* the rows of execution_logs, in insertion order
  skew,            \* what the remote clock is ahead of Date.now(), minutes
  probe,           \* the testConnection calls: position, resources, timeout, result
  api,             \* PUT/DELETE /api/instances/:id requests, per id
  stopped          \* the shutdown handler has run

tvars == <<tunnels, pendingTunnels, sess, timers, waitOn, ext>>
pvars == <<syncStatus, isPolling, pollTimer, poller, cycle, pass, pendingSyncs,
           syncSeq, cl, lastReq, nCycles, inflight>>
dvars == <<remote, cache, skew>>
avars == <<probe, api, stopped>>
vars == <<tunnels, pendingTunnels, sess, timers, now, waitOn, ext, instances,
          syncStatus, isPolling, pollTimer, poller, cycle, pass, pendingSyncs,
          syncSeq, cl, lastReq, nCycles, inflight, remote, cache, skew, probe, api, stopped>>

NoTimer == [id |-> "none", owner |-> 0, due |-> 0]
NoEntry == [sid |-> 0, idleTimer |-> NoTimer, lastUsed |-> 0]
NoSess == [inst |-> "none", ssh |-> "unused", lst |-> "none", pool |-> "none",
           port |-> 0, promise |-> "none", cfg |-> "cur"]
ExtIdle == [st |-> "idle", inst |-> "none", joined |-> 0, pool |-> 0, err |-> "none"]
ClIdle == [st |-> "idle", inst |-> "none", grp |-> 0, out |-> "none"]
NoRow == [present |-> FALSE, lastSyncedAt |-> NULL, lastSyncSuccess |-> FALSE,
          lastSyncError |-> "none", lastSyncRecordCount |-> NULL]
IdlePass == [pc |-> "idle", inst |-> "none", pool |-> 0, cursor |-> NULL, rows |-> 0,
             i |-> 0, upsertedCount |-> 0, at |-> 0, err |-> "none",
             fetched |-> {}, existed |-> {}]
\* No row of n8n_execution_logs under this execution id.
NoRemote == [present |-> FALSE]
\* No testConnection call under this name.
NoProbe == [pc |-> "idle", inst |-> "none", ssh |-> "none", server |-> "none",
            pool |-> "none", timer |-> FALSE, out |-> "none"]
IdleCycle == [pc |-> "idle", list |-> <<>>, idx |-> 0, by |-> "none"]

\* The module state of tunnel-manager.ts and poller.ts and the local tables as
\* one value, threaded through the functions below.
WState ==
  [tunnels |-> tunnels, timers |-> timers, sess |-> sess, pend |-> pendingTunnels,
   waitOn |-> waitOn, ext |-> ext, syncStatus |-> syncStatus, isPolling |-> isPolling,
   pollTimer |-> pollTimer, poller |-> poller, cycle |-> cycle, pass |-> pass,
   pendingSyncs |-> pendingSyncs, syncSeq |-> syncSeq, cl |-> cl, lastReq |-> lastReq,
   nCycles |-> nCycles, inflight |-> inflight, remote |-> remote, cache |-> cache,
   probe |-> probe]

\* An SSHClient that nothing refers to any more and that has nothing left to
\* emit or to close is garbage: its slot is free again.
Garbage(W, s) ==
  /\ W.sess[s].ssh \in {"new", "closed"}
  /\ W.sess[s].lst \in {"none", "closed", "failed"}
  /\ W.sess[s].pool \in {"none", "ended"}
  /\ W.sess[s].promise # "pending"
  /\ \A i \in Instances : W.tunnels[i].sid # s
  /\ \A c \in Ext : W.ext[c].pool # s /\ W.ext[c].joined # s
  /\ \A p \in Passes : W.pass[p].pool # s

SetW(W) ==
  /\ tunnels' = W.tunnels
  /\ timers' = W.timers
  /\ sess' = [s \in Sids |-> IF Garbage(W, s) THEN NoSess ELSE W.sess[s]]
  /\ pendingTunnels' = W.pend
  /\ waitOn' = W.waitOn
  /\ ext' = W.ext
  /\ syncStatus' = W.syncStatus
  /\ isPolling' = W.isPolling
  /\ pollTimer' = W.pollTimer
  /\ poller' = W.poller
  /\ cycle' = W.cycle
  /\ pass' = W.pass
  /\ pendingSyncs' = W.pendingSyncs
  /\ syncSeq' = W.syncSeq
  /\ cl' = W.cl
  /\ lastReq' = W.lastReq
  /\ nCycles' = W.nCycles
  /\ inflight' = W.inflight
  /\ remote' = W.remote
  /\ cache' = W.cache
  /\ probe' = W.probe

\* ------------------------------------------------------- tunnel-manager.ts

\* resetIdleTimer as it would be if it cleared the old timer and stamped
\* lastUsed but scheduled nothing.
resetIdleTimerUnarmed(W, id) ==
  LET entry == W.tunnels[id]
  IN IF entry.sid = 0 THEN W
     ELSE [W EXCEPT !.timers = @ \ {entry.idleTimer},
                    !.tunnels[id] = [@ EXCEPT !.idleTimer = NoTimer, !.lastUsed = now]]

\* resetIdleTimer(id): no-op without an entry; else clear the entry's timer,
\* stamp lastUsed and schedule closeTunnel(id) in IDLE_TIMEOUT.
resetIdleTimer(W, id) ==
  LET entry == W.tunnels[id]
      t == [id |-> id, owner |-> entry.sid, due |-> now + IDLE_TIMEOUT_MIN]
  IN IF entry.sid = 0 THEN W
     ELSE [W EXCEPT !.timers = (@ \ {entry.idleTimer}) \cup {t},
                    !.tunnels[id] = [@ EXCEPT !.idleTimer = t, !.lastUsed = now]]

\* sshClient.end(): a live session starts closing; its 'close' event follows.
sshEnd(st) == IF st \in {"connecting", "ready"} THEN "ended" ELSE st

\* closeTunnel as it would be without tunnels.delete(id).
closeTunnelKeepEntry(W, id) ==
  LET entry == W.tunnels[id]
  IN IF entry.sid = 0 THEN W
     ELSE [W EXCEPT !.timers = @ \ {entry.idleTimer},
                    !.sess[entry.sid] = [@ EXCEPT !.pool = "ended", !.lst = "closed",
                                                  !.ssh = sshEnd(@)]]

\* closeTunnel as it would be without clearTimeout(entry.idleTimer).
closeTunnelKeepTimer(W, id) ==
  LET entry == W.tunnels[id]
  IN IF entry.sid = 0 THEN W
     ELSE [W EXCEPT !.sess[entry.sid] = [@ EXCEPT !.pool = "ended", !.lst = "closed",
                                                  !.ssh = sshEnd(@)],
                    !.tunnels[id] = NoEntry]

\* closeTunnel(id): no-op without an entry; else clear the timer, end the pool,
\* close the listener, end the SSH session and delete the entry.
closeTunnel(W, id) ==
  LET entry == W.tunnels[id]
  IN IF entry.sid = 0 THEN W
     ELSE [W EXCEPT !.timers = @ \ {entry.idleTimer},
                    !.sess[entry.sid] = [@ EXCEPT !.pool = "ended", !.lst = "closed",
                                                  !.ssh = sshEnd(@)],
                    !.tunnels[id] = NoEntry]

\* What closeTunnel closes, each in a try block of its own.
Resources == {"pool", "lst", "ssh"}

\* closeTunnel as it would be with one try block around the three closes and
\* the delete: the first close that throws ends the call.
closeTunnelOneTry(W, id, thr) ==
  LET entry == W.tunnels[id]
      W0 == [W EXCEPT !.timers = @ \ {entry.idleTimer}]
      W1 == [W0 EXCEPT !.sess[entry.sid].pool = "ended"]
      W2 == [W1 EXCEPT !.sess[entry.sid].lst = "closed"]
      W3 == [W2 EXCEPT !.sess[entry.sid].ssh = sshEnd(@)]
  IN IF entry.sid = 0 THEN W
     ELSE IF "pool" \in thr THEN W0
     ELSE IF "lst" \in thr THEN W1
     ELSE IF "ssh" \in thr THEN W2
     ELSE [W3 EXCEPT !.tunnels[id] = NoEntry]

\* closeTunnel(id) when the closes named in thr throw: a close that throws is
\* caught on the spot and leaves its resource as it was; the others and the
\* delete are carried out all the same.
closeTunnelThrowing(W, id, thr) ==
  LET entry == W.tunnels[id]
  IN IF entry.sid = 0 THEN W
     ELSE [W EXCEPT !.timers = @ \ {entry.idleTimer},
                    !.sess[entry.sid] =
                       [@ EXCEPT !.pool = IF "pool" \in thr THEN @ ELSE "ended",
                                 !.lst = IF "lst" \in thr THEN @ ELSE "closed",
                                 !.ssh = IF "ssh" \in thr THEN @ ELSE sshEnd(@)],
                    !.tunnels[id] = NoEntry]

\* testConnection's finally as it would be if it also closed the managed
\* tunnel of the instance.
testFinallyCloseTunnel(W, t) ==
  closeTunnel([W EXCEPT !.probe[t] = [@ EXCEPT !.pool = IF @ = "open" THEN "ended" ELSE @,
                                               !.server = IF @ \in {"binding", "listening"}
                                                            THEN "closed" ELSE @,
                                               !.ssh = sshEnd(@)]],
              W.probe[t].inst)

\* testConnection's finally as it would be without resources.server?.close().
testFinallyKeepServer(W, t) ==
  [W EXCEPT !.probe[t] = [@ EXCEPT !.pool = IF @ = "open" THEN "ended" ELSE @,
                                   !.ssh = sshEnd(@)]]

\* testConnection's finally: whatever of pool, server and ssh has been put
\* into resources is ended or closed.
testFinally(W, t) ==
  [W EXCEPT !.probe[t] = [@ EXCEPT !.pool = IF @ = "open" THEN "ended" ELSE @,
                                   !.server = IF @ \in {"binding", "listening"}
                                                THEN "closed" ELSE @,
                                   !.ssh = sshEnd(@)]]

\* testConnection returns: { success: true } from the try block or
\* { success: false, error } from the catch, then the finally.
testReturn(W, t, out) ==
  testFinally([W EXCEPT !.probe[t].pc = "done", !.probe[t].out = out], t)

\* reject(err) of testConnection's promise: the awaiting function goes to its
\* catch; a promise that is settled already stays as it is.
testReject(W, t, err) ==
  IF W.probe[t].pc = "connect" THEN testReturn(W, t, err) ELSE W

\* Bookkeeping of which connection parameters a session was made from: the
\* sessions of id marked a are marked b ("cur": the record as stored, "pre":
\* the record before an update that is being answered, "old": the record
\* before an update that has completed).
superseded(ss, id, a, b) ==
  [s \in Sids |-> IF ss[s].inst = id /\ ss[s].cfg = a THEN [ss[s] EXCEPT !.cfg = b]
                  ELSE ss[s]]

\* The PUT/DELETE handlers as they would be without closeTunnel(req.params.id).
apiAfterWriteNoClose(W, id, res) == W

\* The PUT/DELETE handlers after the store write has returned: a missing
\* instance is answered with 404 and a failed write with 500; else
\* closeTunnel(req.params.id) runs.
apiAfterWrite(W, id, res) ==
  IF res \in {"update", "delete"} THEN closeTunnel(W, id) ELSE W

\* createTunnel(instance): a new SSHClient; the key file is read synchronously
\* and an unreadable key rejects at once, before connect() is called.
createTunnel(W, id, s, keyOk) ==
  [W EXCEPT !.sess[s] = [NoSess EXCEPT !.inst = id,
                                       !.ssh = IF keyOk THEN "connecting" ELSE "new",
                                       !.promise = IF keyOk THEN "pending" ELSE "rejected"]]

FreeSids(W) == {s \in Sids : W.sess[s].inst = "none"}
NewSid(W) == CHOOSE s \in FreeSids(W) : \A r \in FreeSids(W) : s <= r

\* getPoolForInstance as it would be if the registered entry's pool were
\* returned without resetIdleTimer.
getPoolForInstanceNoReset(W, id, keyOk) ==
  IF W.tunnels[id].sid # 0
    THEN [W |-> W, res |-> "ok", sid |-> W.tunnels[id].sid]
  ELSE IF W.pend[id] # 0
    THEN [W |-> W, res |-> "wait", sid |-> W.pend[id]]
  ELSE LET s == NewSid(W)
           W1 == createTunnel(W, id, s, keyOk)
       IN IF keyOk
            THEN [W |-> [W1 EXCEPT !.pend[id] = s], res |-> "wait", sid |-> s]
            ELSE [W |-> [W1 EXCEPT !.pend[id] = 0], res |-> "err", sid |-> s]

\* getPoolForInstance as it would be without the pendingTunnels lookup: a call
\* that finds no entry starts a creation of its own while a slot is left.
getPoolForInstanceNoJoin(W, id, keyOk) ==
  IF W.tunnels[id].sid # 0
    THEN [W |-> resetIdleTimer(W, id), res |-> "ok", sid |-> W.tunnels[id].sid]
  ELSE IF FreeSids(W) = {}
    THEN [W |-> W, res |-> "wait", sid |-> W.pend[id]]
  ELSE LET s == NewSid(W)
           W1 == createTunnel(W, id, s, keyOk)
       IN IF keyOk
            THEN [W |-> [W1 EXCEPT !.pend[id] = s], res |-> "wait", sid |-> s]
            ELSE [W |-> [W1 EXCEPT !.pend[id] = 0], res |-> "err", sid |-> s]

\* The synchronous part of getPoolForInstance(instance): what the call yields
\* (res) and the state it leaves. "ok": the registered entry's pool, timer reset.
\* "wait": the call awaits creation sid (joined, or started and stored in
\* pendingTunnels). "err": the creation started here was rejected on the key
\* file; its .catch has already removed the pending marker again.
getPoolForInstance(W, id, keyOk) ==
  IF W.tunnels[id].sid # 0
    THEN [W |-> resetIdleTimer(W, id), res |-> "ok", sid |-> W.tunnels[id].sid]
  ELSE IF W.pend[id] # 0
    THEN [W |-> W, res |-> "wait", sid |-> W.pend[id]]
  ELSE LET s == NewSid(W)
           W1 == createTunnel(W, id, s, keyOk)
       IN IF keyOk
            THEN [W |-> [W1 EXCEPT !.pend[id] = s], res |-> "wait", sid |-> s]
            ELSE [W |-> [W1 EXCEPT !.pend[id] = 0], res |-> "err", sid |-> s]

\* A call can be made when it does not need a session beyond the bound.
CanCall(W, id) == W.tunnels[id].sid # 0 \/ W.pend[id] # 0 \/ FreeSids(W) # {}

\* resolve(entry) of creation s, with the .then of getPoolForInstance: install
\* the entry, drop the pending marker, reset the idle timer. A promise that is
\* already settled ignores it. Callers that joined the pending creation reset
\* the timer once more when they resume.
resolveCreate(W, s, joiners) ==
  LET id == W.sess[s].inst
      W1 == [W EXCEPT !.sess[s].promise = "resolved",
                      !.tunnels[id] = [sid |-> s, idleTimer |-> NoTimer, lastUsed |-> now],
                      !.pend[id] = 0]
      W2 == resetIdleTimer(W1, id)
  IN IF W.sess[s].promise # "pending" THEN W
     ELSE IF joiners THEN resetIdleTimer(W2, id) ELSE W2

\* The rejection as it would be if the .catch left pendingTunnels alone.
rejectCreateKeepPending(W, s) ==
  IF W.sess[s].promise # "pending" THEN W
  ELSE [W EXCEPT !.sess[s].promise = "rejected"]

\* reject(err) of creation s, with the .catch of getPoolForInstance: drop the
\* pending marker of the instance. A settled promise ignores it.
rejectCreate(W, s) ==
  IF W.sess[s].promise # "pending" THEN W
  ELSE [W EXCEPT !.sess[s].promise = "rejected", !.pend[W.sess[s].inst] = 0]

\* The port the OS gives a listener: one that no open listener holds. Ports
\* are only ever compared, so the least free one stands for any of them.
FreePort(W) ==
  CHOOSE p \in Ports :
    /\ \A r \in Sids : W.sess[r].lst = "open" => W.sess[r].port # p
    /\ \A q \in Ports : q < p => \E r \in Sids : W.sess[r].lst = "open" /\ W.sess[r].port = q

\* ---------------------------------------------------------------- poller.ts

\* The failure upsert as it would be if its conflict clause also took
\* last_synced_at from the inserted values, which carry none.
writeFailureResetCursor(row, msg) ==
  [NoRow EXCEPT !.present = TRUE, !.lastSyncSuccess = FALSE, !.lastSyncError = msg,
                !.lastSyncRecordCount = row.lastSyncRecordCount]

\* The failure upsert of pollAllInstances' catch block: a new row carries only
\* the outcome; an existing row keeps lastSyncedAt and lastSyncRecordCount.
writeFailure(row, msg) ==
  IF row.present
    THEN [row EXCEPT !.lastSyncSuccess = FALSE, !.lastSyncError = msg]
    ELSE [NoRow EXCEPT !.present = TRUE, !.lastSyncSuccess = FALSE, !.lastSyncError = msg]

\* The success upsert that ends pollInstance.
writeSuccess(row, at, count) ==
  [present |-> TRUE, lastSyncedAt |-> at, lastSyncSuccess |-> TRUE,
   lastSyncError |-> "none", lastSyncRecordCount |-> count]

\* ------------------------------------------------- rows and the batch upsert

\* A row of the remote table n8n_execution_logs. The columns other than
\* execution_id, status, started_at and created_at carry the number of the
\* version of the row they belong to.
RemoteRow(x, v, st, created, started) ==
  [present |-> TRUE, execution_id |-> x, workflow_id |-> v, workflow_name |-> v,
   status |-> st, finished |-> v, started_at |-> started, finished_at |-> v,
   duration_ms |-> v, mode |-> v, node_count |-> v, error_message |-> v,
   execution_data |-> v, workflow_data |-> v, created_at |-> created]

\* Status strings as remote databases hold them.
RawStatuses == {"Success", "CRASHED", "unknown", "cancelled", "success", "error",
                "running", "waiting", "canceled", "failed", "Running", " error ",
                "WAITING", "bogus", ""}

\* The canonical values (type ExecutionStatus).
ExecutionStatus == {"success", "error", "running", "waiting", "canceled"}

\* String.prototype.toLowerCase / SQL LOWER on the strings above.
toLowerCase(str) ==
  CASE str = "Success" -> "success"
    [] str = "CRASHED" -> "crashed"
    [] str = "Running" -> "running"
    [] str = "WAITING" -> "waiting"
    [] OTHER -> str

\* String.prototype.trim / SQL TRIM on the strings above.
trim(str) == IF str = " error " THEN "error" ELSE str

\* normalizeStatus(raw): case-insensitive; a canonical value stays, "cancelled"
\* becomes "canceled", anything that is not recognized becomes "error".
normalizeStatus(raw) ==
  LET k == toLowerCase(raw)
  IN CASE k \in ExecutionStatus -> k
       [] k = "cancelled" -> "canceled"
       [] OTHER -> "error"

\* The CASE expression of normalizeExistingStatuses, applied to one status.
normalizeExisting(status) ==
  LET k == toLowerCase(trim(status))
  IN IF status \in ExecutionStatus THEN status
     ELSE CASE k = "success" -> "success"
            [] k = "error" -> "error"
            [] k = "crashed" -> "error"
            [] k = "failed" -> "error"
            [] k = "unknown" -> "error"
            [] k = "running" -> "running"
            [] k = "new" -> "running"
            [] k = "waiting" -> "waiting"
            [] k = "canceled" -> "canceled"
            [] k = "cancelled" -> "canceled"
            [] OTHER -> "error"

\* The values object pollInstance builds from a remote row as it would be
\* with the remote status stored as it comes.
toValuesRawStatus(id, row) ==
  [instanceId |-> id, executionId |-> row.execution_id, workflowId |-> row.workflow_id,
   workflowName |-> row.workflow_name, status |-> row.status,
   finished |-> row.finished, startedAt |-> row.started_at,
   finishedAt |-> row.finished_at, durationMs |-> row.duration_ms, mode |-> row.mode,
   nodeCount |-> row.node_count, errorMessage |-> row.error_message,
   executionData |-> row.execution_data, workflowData |-> row.workflow_data,
   createdAt |-> row.created_at]

\* The values object pollInstance builds from a remote row. A null column
\* stays null; the other conversions keep what the column says.
toValues(id, row) ==
  [instanceId |-> id, executionId |-> row.execution_id, workflowId |-> row.workflow_id,
   workflowName |-> row.workflow_name, status |-> normalizeStatus(row.status),
   finished |-> row.finished, startedAt |-> row.started_at,
   finishedAt |-> row.finished_at, durationMs |-> row.duration_ms, mode |-> row.mode,
   nodeCount |-> row.node_count, errorMessage |-> row.error_message,
   executionData |-> row.execution_data, workflowData |-> row.workflow_data,
   createdAt |-> row.created_at]

\* The positions of the cached rows under the key of val.
Conflicts(c, val) ==
  {k \in 1..Len(c) : c[k].instanceId = val.instanceId /\ c[k].executionId = val.executionId}

\* The upsert as it would be if the conflict clause set every column.
upsertRowSetAll(c, val) ==
  IF Conflicts(c, val) = {} THEN Append(c, val)
  ELSE [k \in 1..Len(c) |-> IF k \in Conflicts(c, val) THEN val ELSE c[k]]

\* INSERT ... ON CONFLICT (instance_id, execution_id) DO UPDATE SET ... for one
\* row: a new key is inserted whole; on an existing key the seven columns of
\* the set clause take the new values.
upsertRow(c, val) ==
  IF Conflicts(c, val) = {} THEN Append(c, val)
  ELSE [k \in 1..Len(c) |->
          IF k \in Conflicts(c, val)
            THEN [c[k] EXCEPT !.status = val.status, !.finished = val.finished,
                              !.finishedAt = val.finishedAt,
                              !.durationMs = val.durationMs,
                              !.errorMessage = val.errorMessage,
                              !.executionData = val.executionData,
                              !.workflowData = val.workflowData]
            ELSE c[k]]

\* One batch statement over the remote rows S of instance id.
RECURSIVE upsertBatch(_, _, _)
upsertBatch(c, id, S) ==
  IF S = {} THEN c
  ELSE LET r == CHOOSE x \in S : TRUE
       IN upsertBatch(upsertRow(c, toValues(id, r)), id, S \ {r})

\* The query as it would be without a WHERE clause.
MatchesAll(cursor, r) == TRUE

\* The WHERE clause of pollInstance's query as the remote database evaluates
\* it on row r: the last 30 days by its own clock on a first sync, else from
\* lastSyncedAt minus the safety margin.
Matches(cursor, r) ==
  IF cursor = NULL
    THEN r.created_at >= (now + skew) - INITIAL_LOOKBACK_DAYS * 24 * 60
    ELSE r.created_at >= cursor - CLOCK_SKEW_MINUTES

\* The followed rows in the result of the query.
Result(id, cursor) ==
  {remote[id][x] : x \in {y \in Execs : remote[id][y].present
                                          /\ Matches(cursor, remote[id][y])}}

\* triggerSyncForInstance's finally and the settling of its promise: the
\* marker is deleted and every caller attached to the promise gets the outcome.
endSync(W, id, msg) ==
  [W EXCEPT !.pendingSyncs[id] = FALSE,
            !.pass[id] = IdlePass,
            !.cl = [c \in Clients |->
                      IF W.cl[c].st = "wait" /\ W.cl[c].inst = id
                        THEN [W.cl[c] EXCEPT !.st = IF msg = "none" THEN "ok" ELSE "err",
                                             !.out = msg]
                        ELSE W.cl[c]]]

\* pollAllInstances' finally and the settling of its promise. startPoller,
\* which awaited the first cycle, sets the interval when the cycle resolved.
endCycle(W, ok) ==
  [W EXCEPT !.isPolling = FALSE,
            !.cycle = IdleCycle,
            !.pass["cyc"] = IdlePass,
            !.pollTimer = IF W.cycle.by = "start" /\ ok THEN TRUE ELSE @,
            !.poller = IF W.cycle.by # "start" THEN @
                       ELSE IF ok THEN "on" ELSE "failed"]

Origin(p) == IF p = "cyc" THEN "cycle" ELSE "manual"

\* A pollInstance call of pass p returns or throws.
left(W, p) == [W EXCEPT !.inflight[W.pass[p].inst][Origin(p)] = @ - 1]

\* pollInstance threw msg. The sweep catches it and issues the failure upsert
\* of sync_status; a manual sync lets it through to its callers.
passFail(W, p, msg) ==
  IF p = "cyc"
    THEN [left(W, p) EXCEPT !.pass[p].pc = "failWrite", !.pass[p].err = msg]
    ELSE endSync(left(W, p), p, msg)

\* pollInstance(instance) up to its first suspension: getPoolForInstance, then
\* the read of sync_status is issued.
pollInstance(W, p, id, keyOk) ==
  LET r == getPoolForInstance(W, id, keyOk)
      W1 == [r.W EXCEPT !.pass[p] =
                          [IdlePass EXCEPT !.inst = id,
                                           !.existed = {x \in Execs : W.remote[id][x].present}],
                        !.inflight[id][Origin(p)] = @ + 1]
  IN CASE r.res = "ok" -> [W1 EXCEPT !.pass[p].pc = "cursor", !.pass[p].pool = r.sid]
       [] r.res = "wait" -> [W1 EXCEPT !.pass[p].pc = "acquire", !.waitOn[p] = r.sid]
       [] OTHER -> passFail(W1, p, "key")

\* The for loop of pollAllInstances at its k-th instance.
sweep(W, k, keyOk) ==
  IF k > Len(W.cycle.list) THEN endCycle(W, TRUE)
  ELSE pollInstance([W EXCEPT !.cycle.idx = k], "cyc", W.cycle.list[k], keyOk)

\* pollInstance returned: the sweep goes on; a manual sync resolves.
passDone(W, p, keyOk) ==
  IF p = "cyc" THEN sweep(left(W, p), W.cycle.idx + 1, keyOk)
  ELSE endSync(left(W, p), p, "none")

\* A caller of getPoolForInstance resumes when the creation it awaits settles.
resume(W, c, s, msg) ==
  LET W0 == [W EXCEPT !.waitOn[c] = 0]
  IN IF c \in Ext
       THEN IF msg = "none"
              THEN [W0 EXCEPT !.ext[c] = [@ EXCEPT !.st = "ok", !.pool = s]]
              ELSE [W0 EXCEPT !.ext[c] = [@ EXCEPT !.st = "err", !.err = msg]]
     ELSE IF msg = "none"
       THEN [W0 EXCEPT !.pass[c] = [@ EXCEPT !.pc = "cursor", !.pool = s]]
     ELSE passFail(W0, c, msg)

RECURSIVE resumeAll(_, _, _, _)
resumeAll(W, cs, s, msg) ==
  IF cs = {} THEN W
  ELSE LET c == CHOOSE x \in cs : TRUE
       IN resumeAll(resume(W, c, s, msg), cs \ {c}, s, msg)

Waiters(W, s) == {c \in Callers : W.waitOn[c] = s}

\* Creation s settles (msg "none": resolved) and its awaiters resume; nothing
\* happens when the promise was settled before.
settle(W, s, msg) ==
  IF W.sess[s].promise # "pending" THEN W
  ELSE LET ws == Waiters(W, s)
           W1 == IF msg = "none" THEN resolveCreate(W, s, Cardinality(ws) > 1)
                 ELSE rejectCreate(W, s)
       IN resumeAll(W1, ws, s, msg)

\* pollAllInstances as it would be without the isPolling check.
pollAllInstancesNoGuard(W, by) ==
  [W EXCEPT !.isPolling = TRUE, !.lastReq = "started", !.nCycles = @ + 1,
            !.cycle = [IdleCycle EXCEPT !.pc = "list", !.by = by],
            !.poller = IF by = "start" THEN "first" ELSE @]

\* pollAllInstances() is called: skipped while a cycle runs; else the flag is
\* set and the instance list is requested.
pollAllInstances(W, by) ==
  IF W.isPolling
    THEN [W EXCEPT !.lastReq = "skipped",
                   !.pollTimer = IF by = "start" THEN TRUE ELSE @,
                   !.poller = IF by = "start" THEN "on" ELSE @]
    ELSE [W EXCEPT !.isPolling = TRUE, !.lastReq = "started", !.nCycles = @ + 1,
                   !.cycle = [IdleCycle EXCEPT !.pc = "list", !.by = by],
                   !.poller = IF by = "start" THEN "first" ELSE @]

\* stopPoller as it would be without clearInterval.
stopPollerKeepTimer(W) == W

\* stopPoller(): the interval, if set, is cleared.
stopPoller(W) == [W EXCEPT !.pollTimer = FALSE]

\* closeAllTunnels(): closeTunnel for every id the registry holds.
RECURSIVE closeEach(_, _)
closeEach(W, ids) ==
  IF ids = {} THEN W
  ELSE LET id == CHOOSE i \in ids : TRUE
       IN closeEach(closeTunnel(W, id), ids \ {id})

closeAllTunnels(W) == closeEach(W, {id \in Instances : W.tunnels[id].sid # 0})

\* The SIGTERM/SIGINT handler: stopPoller(), then closeAllTunnels().
shutdown(W) == closeAllTunnels(stopPoller(W))

\* ------------------------------------------------ actions: tunnel-manager.ts

\* getInstancePool (the API read path): caller c asks for the pool of id.
ExtCall(c, id) ==
  /\ ext[c].st = "idle"
  /\ CanCall(WState, id)
  /\ \E keyOk \in BOOLEAN :
       LET r == getPoolForInstance(WState, id, keyOk)
       IN SetW([r.W EXCEPT !.waitOn[c] = IF r.res = "wait" THEN r.sid ELSE 0,
                           !.ext[c] = [st |-> r.res, inst |-> id,
                                       joined |-> IF r.res = "ok" THEN 0 ELSE r.sid,
                                       pool |-> IF r.res = "ok" THEN r.sid ELSE 0,
                                       err |-> IF r.res = "err" THEN "key" ELSE "none"]])
  /\ UNCHANGED <<now, instances, skew, api, stopped>>

\* The caller has used its result; the slot serves the next request.
ExtDone(c) ==
  /\ ext[c].st \in {"ok", "err"}
  /\ SetW([WState EXCEPT !.ext[c] = ExtIdle])
  /\ UNCHANGED <<now, instances, skew, api, stopped>>

\* sshClient 'ready': the local server is created and listen(0) is issued.
SshReady(s) ==
  /\ sess[s].ssh = "connecting"
  /\ sess' = [sess EXCEPT ![s].ssh = "ready", ![s].lst = "binding"]
  /\ UNCHANGED <<tunnels, pendingTunnels, timers, now, waitOn, ext, instances>>
  /\ UNCHANGED pvars
  /\ UNCHANGED dvars
  /\ UNCHANGED avars

\* The listen callback: the pool is built on the bound port and resolve(entry)
\* is called, whatever has happened to the SSH session in between.
ListenBound(s) ==
  /\ sess[s].lst = "binding"
  /\ LET W0 == [WState EXCEPT !.sess[s] = [@ EXCEPT !.lst = "open", !.pool = "open",
                                                    !.port = FreePort(WState)]]
     IN SetW(settle(W0, s, "none"))
  /\ UNCHANGED <<now, instances, skew, api, stopped>>

\* localServer 'error' while binding: reject(err).
ListenError(s) ==
  /\ sess[s].lst = "binding"
  /\ SetW(settle([WState EXCEPT !.sess[s].lst = "failed"], s, "bind"))
  /\ UNCHANGED <<now, instances, skew, api, stopped>>

\* sshClient 'error' (connect, auth or a later transport error):
\* closeTunnel(instance.id), then reject(err).
SshError(s) ==
  /\ sess[s].ssh \in {"connecting", "ready"}
  /\ LET W0 == [WState EXCEPT !.sess[s].ssh = "errored"]
     IN SetW(settle(closeTunnel(W0, sess[s].inst), s, "ssh"))
  /\ UNCHANGED <<now, instances, skew, api, stopped>>

\* sshClient 'close' (after an error, after end(), or the peer hanging up):
\* closeTunnel(instance.id).
SshClose(s) ==
  /\ sess[s].ssh \in {"ready", "errored", "ended"}
  /\ SetW(closeTunnel([WState EXCEPT !.sess[s].ssh = "closed"], sess[s].inst))
  /\ UNCHANGED <<now, instances, skew, api, stopped>>

\* The idle timer's callback: closeTunnel(id).
IdleFire(t) ==
  /\ t \in timers
  /\ now >= t.due
  /\ SetW(closeTunnel([WState EXCEPT !.timers = @ \ {t}], t.id))
  /\ UNCHANGED <<now, instances, skew, api, stopped>>

\* PUT and DELETE /api/instances/:id call closeTunnel(id) after the store write.
ApiCloseTunnel(id) ==
  /\ tunnels[id].sid # 0
  /\ SetW(closeTunnel(WState, id))
  /\ UNCHANGED <<now, instances, skew, api, stopped>>

\* closeTunnel(id) is called for any id, registered or not, and any of its
\* closes may throw.
CloseCall(id, thr) ==
  /\ SetW(closeTunnelThrowing(WState, id, thr))
  /\ UNCHANGED <<now, instances, skew, api, stopped>>

\* testConnection(instance): the key file is read; an unreadable key goes to
\* the catch at once, else the SSHClient is made, the 30 s timeout is set
\* and connect() is called.
TestCall(t, id) ==
  /\ probe[t].pc = "idle"
  /\ \E keyOk \in BOOLEAN :
       SetW(IF keyOk
              THEN [WState EXCEPT !.probe[t] = [NoProbe EXCEPT !.pc = "connect", !.inst = id,
                                                              !.ssh = "connecting",
                                                              !.timer = TRUE]]
              ELSE testReturn([WState EXCEPT !.probe[t].inst = id], t, "key"))
  /\ UNCHANGED <<now, instances, skew, api, stopped>>

\* The probe's ssh 'ready': the server is created, kept in resources, and
\* listen(0) is issued.
TestSshReady(t) ==
  /\ probe[t].ssh = "connecting"
  /\ SetW([WState EXCEPT !.probe[t].ssh = "ready", !.probe[t].server = "binding"])
  /\ UNCHANGED <<now, instances, skew, api, stopped>>

\* The probe's listen callback: the pool is made, kept in resources, and the
\* promise resolves; the function goes on to SELECT 1.
TestListening(t) ==
  /\ probe[t].server = "binding"
  /\ SetW([WState EXCEPT !.probe[t] =
                            [@ EXCEPT !.server = "listening", !.pool = "open",
                                      !.pc = IF @ = "connect" THEN "query" ELSE @]])
  /\ UNCHANGED <<now, instances, skew, api, stopped>>

\* The probe's ssh 'error': reject(err).
TestSshError(t) ==
  /\ probe[t].ssh \in {"connecting", "ready"}
  /\ SetW(testReject([WState EXCEPT !.probe[t].ssh = "errored"], t, "ssh"))
  /\ UNCHANGED <<now, instances, skew, api, stopped>>

\* The 30 s timeout, which nothing clears, fires: reject("SSH connection timeout").
TestTimeout(t) ==
  /\ probe[t].timer
  /\ SetW(testReject([WState EXCEPT !.probe[t].timer = FALSE], t, "timeout"))
  /\ UNCHANGED <<now, instances, skew, api, stopped>>

\* SELECT 1 AS ok returns 1, returns something else, or fails.
TestQueryDone(t) ==
  /\ probe[t].pc = "query"
  /\ \E res \in {"ok", "unexpected", "query"} : SetW(testReturn(WState, t, res))
  /\ UNCHANGED <<now, instances, skew, api, stopped>>

\* The route has answered and nothing of the call is left to happen.
TestAnswered(t) ==
  /\ probe[t].pc = "done"
  /\ ~probe[t].timer
  /\ probe[t].ssh \notin {"connecting", "ready"}
  /\ probe[t].server # "binding"
  /\ SetW([WState EXCEPT !.probe[t] = NoProbe])
  /\ UNCHANGED <<now, instances, skew, api, stopped>>

\* PUT or DELETE /api/instances/:id arrives and the store write is issued:
\* it fails, finds no such instance, or takes effect.
ApiCall(id, kind) ==
  /\ api[id] = "idle"
  /\ \E ok \in BOOLEAN :
       /\ api' = [api EXCEPT ![id] = IF ~ok THEN "failed"
                                     ELSE IF id \notin instances THEN "notfound"
                                     ELSE kind]
       /\ instances' = IF ok /\ kind = "delete" THEN instances \ {id} ELSE instances
       /\ sess' = IF ok /\ kind = "update" /\ id \in instances
                    THEN superseded(sess, id, "cur", "pre") ELSE sess
  /\ UNCHANGED <<now, probe, stopped>>
  /\ UNCHANGED <<tunnels, pendingTunnels, timers, waitOn, ext>>
  /\ UNCHANGED pvars
  /\ UNCHANGED dvars

\* The store write has returned to the handler, which answers.
ApiStoreDone(id) ==
  /\ api[id] \in {"update", "delete", "notfound", "failed"}
  /\ LET W == apiAfterWrite(WState, id, api[id])
     IN SetW(IF api[id] = "update"
               THEN [W EXCEPT !.sess = superseded(@, id, "pre", "old")] ELSE W)
  /\ api' = [api EXCEPT ![id] = IF @ = "notfound" THEN "404"
                                 ELSE IF @ = "failed" THEN "500" ELSE "ok"]
  /\ UNCHANGED <<now, instances, skew, stopped>>

\* The response has gone out.
ApiAnswered(id) ==
  /\ api[id] \in {"ok", "404", "500"}
  /\ api' = [api EXCEPT ![id] = "idle"]
  /\ UNCHANGED <<now, instances, probe, stopped>>
  /\ UNCHANGED tvars
  /\ UNCHANGED pvars
  /\ UNCHANGED dvars

\* SIGTERM or SIGINT is delivered. The handler is installed after startPoller
\* has returned, so the first cycle is over and the interval is set.
Shutdown ==
  /\ poller = "on"
  /\ SetW(shutdown(WState))
  /\ stopped' = TRUE
  /\ UNCHANGED <<now, instances, skew, api>>

Tick ==
  /\ now + ClockStep <= MaxTime
  /\ now' = now + ClockStep
  /\ UNCHANGED <<tunnels, pendingTunnels, sess, timers, waitOn, ext, instances>>
  /\ UNCHANGED pvars
  /\ UNCHANGED dvars
  /\ UNCHANGED avars

\* --------------------------------------------------------- actions: poller.ts

\* startPoller(): the first cycle, awaited.
StartPoller ==
  /\ poller = "off"
  /\ SetW(pollAllInstances(WState, "start"))
  /\ UNCHANGED <<now, instances, skew, api, stopped>>

\* The interval set by startPoller fires.
PollTimerFire ==
  /\ pollTimer
  /\ isPolling \/ nCycles < MaxCycles
  /\ SetW(pollAllInstances(WState, "timer"))
  /\ UNCHANGED <<now, instances, skew, api, stopped>>

Orders(S) == {q \in [1..Cardinality(S) -> S] : \A a, b \in DOMAIN q : a # b => q[a] # q[b]}

\* db.select().from(n8nInstances) returns (in the order the table gives) or fails.
CycleListed ==
  /\ cycle.pc = "list"
  /\ \/ \E q \in Orders(instances), keyOk \in BOOLEAN :
          /\ q # <<>> => CanCall(WState, q[1])
          /\ SetW(sweep([WState EXCEPT !.cycle.pc = "sweep", !.cycle.list = q], 1, keyOk))
     \/ SetW(endCycle(WState, FALSE))
  /\ UNCHANGED <<now, instances, skew, api, stopped>>

\* The read of sync_status returns and the remote query is issued, or it fails.
CursorDone(p) ==
  /\ pass[p].pc = "cursor"
  /\ \/ SetW([WState EXCEPT !.pass[p].pc = "query",
                            !.pass[p].cursor = syncStatus[pass[p].inst].lastSyncedAt])
     \/ SetW(passFail(WState, p, "db"))
  /\ UNCHANGED <<now, instances, skew, api, stopped>>

\* An empty result goes straight to the sync_status write.
afterQuery(ps, n) ==
  [ps EXCEPT !.rows = n, !.i = 0, !.upsertedCount = 0,
             !.pc = IF 0 < n THEN "upsert" ELSE "status", !.at = now]

\* pool.query returns n rows, or fails.
QueryDone(p) ==
  /\ pass[p].pc = "query"
  /\ \/ \E n \in RowCounts :
          LET F == Result(pass[p].inst, pass[p].cursor)
          IN SetW([WState EXCEPT !.pass[p] = [afterQuery(@, n + Cardinality(F))
                                                EXCEPT !.fetched = F]])
     \/ SetW(passFail(WState, p, "query"))
  /\ UNCHANGED <<now, instances, skew, api, stopped>>

Min(a, b) == IF a < b THEN a ELSE b

\* The batch loop as it would be if it were left after its first batch.
afterBatchOnce(ps) ==
  [ps EXCEPT !.upsertedCount = @ + Min(BATCH_SIZE, ps.rows - ps.i),
             !.i = @ + BATCH_SIZE,
             !.pc = "status",
             !.at = now]

\* One turn of the batch loop: count the batch, step i, go on or leave.
afterBatch(ps) ==
  [ps EXCEPT !.upsertedCount = @ + Min(BATCH_SIZE, ps.rows - ps.i),
             !.i = @ + BATCH_SIZE,
             !.pc = IF ps.i + BATCH_SIZE < ps.rows THEN "upsert" ELSE "status",
             !.at = now]

\* The batch in flight is the last one of the loop.
LastBatch(ps) == ~(ps.i + BATCH_SIZE < ps.rows)

\* The batch upsert into execution_logs returns (the followed rows of the
\* result lie in any of the batches), or fails.
UpsertDone(p) ==
  /\ pass[p].pc = "upsert"
  /\ \/ \E S \in SUBSET pass[p].fetched :
          /\ LastBatch(pass[p]) => S = pass[p].fetched
          /\ SetW([WState EXCEPT !.pass[p] = [afterBatch(@) EXCEPT !.fetched = @ \ S],
                                 !.cache = upsertBatch(@, pass[p].inst, S)])
     \/ SetW(passFail(WState, p, "db"))
  /\ UNCHANGED <<now, instances, skew, api, stopped>>

NeedsCall(p) ==
  p = "cyc" /\ cycle.idx < Len(cycle.list) => CanCall(WState, cycle.list[cycle.idx + 1])

\* The success upsert of sync_status returns, or fails.
StatusDone(p) ==
  /\ pass[p].pc = "status"
  /\ \/ /\ NeedsCall(p)
        /\ \E keyOk \in BOOLEAN :
             LET id == pass[p].inst
                 W1 == [WState EXCEPT !.syncStatus[id] =
                           writeSuccess(@, pass[p].at, pass[p].upsertedCount)]
             IN SetW(passDone(W1, p, keyOk))
     \/ SetW(passFail(WState, p, "db"))
  /\ UNCHANGED <<now, instances, skew, api, stopped>>

\* The failure upsert of the sweep's catch block returns and the loop goes on;
\* or it fails, and the exception leaves the loop.
FailWriteDone ==
  /\ pass["cyc"].pc = "failWrite"
  /\ \/ /\ NeedsCall("cyc")
        /\ \E keyOk \in BOOLEAN :
             LET id == pass["cyc"].inst
                 W1 == [WState EXCEPT !.syncStatus[id] = writeFailure(@, pass["cyc"].err)]
             IN SetW(sweep(W1, cycle.idx + 1, keyOk))
     \/ SetW(endCycle(WState, FALSE))
  /\ UNCHANGED <<now, instances, skew, api, stopped>>

\* triggerSyncForInstance as it would be without the instances.length check.
afterLookupNoCheck(W, id, found, keyOk) == pollInstance(W, id, id, keyOk)

\* triggerSyncForInstance after its lookup has returned: "Instance not found"
\* is thrown when there is no row, else pollInstance(instances[0]) starts.
afterLookup(W, id, found, keyOk) ==
  IF found THEN pollInstance(W, id, id, keyOk) ELSE endSync(W, id, "notfound")

\* triggerSyncForInstance as it would be without the pendingSyncs lookup.
triggerSyncForInstanceNoDedup(W, c, id) ==
  [W EXCEPT !.pendingSyncs[id] = TRUE,
            !.syncSeq[id] = @ + 1,
            !.pass[id] = [IdlePass EXCEPT !.pc = "lookup", !.inst = id],
            !.cl[c] = [st |-> "wait", inst |-> id, grp |-> W.syncSeq[id] + 1,
                       out |-> "none"]]

\* triggerSyncForInstance(id) for caller c: attach to the pending sync, or
\* start one (the instance lookup is issued) and store its promise.
triggerSyncForInstance(W, c, id) ==
  IF W.pendingSyncs[id]
    THEN [W EXCEPT !.cl[c] = [st |-> "wait", inst |-> id, grp |-> W.syncSeq[id],
                              out |-> "none"]]
    ELSE [W EXCEPT !.pendingSyncs[id] = TRUE,
                   !.syncSeq[id] = @ + 1,
                   !.pass[id] = [IdlePass EXCEPT !.pc = "lookup", !.inst = id],
                   !.cl[c] = [st |-> "wait", inst |-> id, grp |-> W.syncSeq[id] + 1,
                              out |-> "none"]]

TriggerSync(c, id) ==
  /\ cl[c].st = "idle"
  /\ pendingSyncs[id] \/ syncSeq[id] < MaxSyncs
  /\ SetW(triggerSyncForInstance(WState, c, id))
  /\ UNCHANGED <<now, instances, skew, api, stopped>>

\* The instance lookup of a manual sync returns: pollInstance starts, or
\* "Instance not found" is thrown; or the lookup fails.
LookupDone(id) ==
  /\ pass[id].pc = "lookup"
  /\ \/ /\ id \in instances => CanCall(WState, id)
        /\ \E keyOk \in BOOLEAN :
             SetW(afterLookup(WState, id, id \in instances, keyOk))
     \/ SetW(endSync(WState, id, "db"))
  /\ UNCHANGED <<now, instances, skew, api, stopped>>

\* The HTTP request has been answered.
ClientDone(c) ==
  /\ cl[c].st \in {"ok", "err"}
  /\ cl' = [cl EXCEPT ![c] = ClIdle]
  /\ UNCHANGED <<syncStatus, isPolling, pollTimer, poller, cycle, pass, pendingSyncs,
                 syncSeq, lastReq, nCycles, inflight, now, instances>>
  /\ UNCHANGED tvars
  /\ UNCHANGED dvars
  /\ UNCHANGED avars

\* The remote n8n writes a row for a new execution, stamped by its own clock.
RemoteInsert(id, x, st) ==
  /\ ~remote[id][x].present
  /\ remote' = [remote EXCEPT ![id][x] = RemoteRow(x, 1, st, now + skew, NULL)]
  /\ UNCHANGED <<now, instances, cache, skew>>
  /\ UNCHANGED avars
  /\ UNCHANGED tvars
  /\ UNCHANGED pvars

\* The remote n8n rewrites the row of an execution that went on.
RemoteUpdate(id, x, st) ==
  /\ remote[id][x].present
  /\ remote[id][x].workflow_data + 1 \in Versions
  /\ remote' = [remote EXCEPT ![id][x] =
                   RemoteRow(x, @.workflow_data + 1, st, @.created_at, @.created_at)]
  /\ UNCHANGED <<now, instances, cache, skew>>
  /\ UNCHANGED avars
  /\ UNCHANGED tvars
  /\ UNCHANGED pvars

\* The batch statement of pollInstance run on the rows S for instance id.
UpsertRows(id, S) ==
  /\ cache' = upsertBatch(cache, id, S)
  /\ UNCHANGED <<now, instances, remote, skew>>
  /\ UNCHANGED avars
  /\ UNCHANGED tvars
  /\ UNCHANGED pvars

Init ==
  /\ tunnels = [i \in Instances |-> NoEntry]
  /\ pendingTunnels = [i \in Instances |-> 0]
  /\ sess = [s \in Sids |-> NoSess]
  /\ timers = {}
  /\ now = 0
  /\ waitOn = [c \in Callers |-> 0]
  /\ ext = [c \in Ext |-> ExtIdle]
  /\ instances = Instances
  /\ syncStatus = [i \in Instances |-> NoRow]
  /\ isPolling = FALSE
  /\ pollTimer = FALSE
  /\ poller = "off"
  /\ cycle = IdleCycle
  /\ pass = [p \in Passes |-> IdlePass]
  /\ pendingSyncs = [i \in Instances |-> FALSE]
  /\ syncSeq = [i \in Instances |-> 0]
  /\ cl = [c \in Clients |-> ClIdle]
  /\ lastReq = "none"
  /\ nCycles = 0
  /\ inflight = [i \in Instances |-> [manual |-> 0, cycle |-> 0]]
  /\ remote = [i \in Instances |-> [x \in Execs |-> NoRemote]]
  /\ cache = <<>>
  /\ skew = 0
  /\ probe = [t \in Probes |-> NoProbe]
  /\ api = [i \in Instances |-> "idle"]
  /\ stopped = FALSE

\* A manual sync can also name an id that has no row in n8n_instances.
InitSync ==
  /\ tunnels = [i \in Instances |-> NoEntry]
  /\ pendingTunnels = [i \in Instances |-> 0]
  /\ sess = [s \in Sids |-> NoSess]
  /\ timers = {}
  /\ now = 0
  /\ waitOn = [c \in Callers |-> 0]
  /\ ext = [c \in Ext |-> ExtIdle]
  /\ instances \in {SyncIds, {}}
  /\ syncStatus = [i \in Instances |-> NoRow]
  /\ isPolling = FALSE
  /\ pollTimer = FALSE
  /\ poller = "off"
  /\ cycle = IdleCycle
  /\ pass = [p \in Passes |-> IdlePass]
  /\ pendingSyncs = [i \in Instances |-> FALSE]
  /\ syncSeq = [i \in Instances |-> 0]
  /\ cl = [c \in Clients |-> ClIdle]
  /\ lastReq = "none"
  /\ nCycles = 0
  /\ inflight = [i \in Instances |-> [manual |-> 0, cycle |-> 0]]
  /\ remote = [i \in Instances |-> [x \in Execs |-> NoRemote]]
  /\ cache = <<>>
  /\ skew = 0
  /\ probe = [t \in Probes |-> NoProbe]
  /\ api = [i \in Instances |-> "idle"]
  /\ stopped = FALSE

\* One configured instance whose remote clock may be off by the margin.
InitData ==
  /\ tunnels = [i \in Instances |-> NoEntry]
  /\ pendingTunnels = [i \in Instances |-> 0]
  /\ sess = [s \in Sids |-> NoSess]
  /\ timers = {}
  /\ now = 0
  /\ waitOn = [c \in Callers |-> 0]
  /\ ext = [c \in Ext |-> ExtIdle]
  /\ instances = DataIds
  /\ syncStatus = [i \in Instances |-> NoRow]
  /\ isPolling = FALSE
  /\ pollTimer = FALSE
  /\ poller = "off"
  /\ cycle = IdleCycle
  /\ pass = [p \in Passes |-> IdlePass]
  /\ pendingSyncs = [i \in Instances |-> FALSE]
  /\ syncSeq = [i \in Instances |-> 0]
  /\ cl = [c \in Clients |-> ClIdle]
  /\ lastReq = "none"
  /\ nCycles = 0
  /\ inflight = [i \in Instances |-> [manual |-> 0, cycle |-> 0]]
  /\ remote = [i \in Instances |-> [x \in Execs |-> NoRemote]]
  /\ cache = <<>>
  /\ skew \in Skews
  /\ probe = [t \in Probes |-> NoProbe]
  /\ api = [i \in Instances |-> "idle"]
  /\ stopped = FALSE

\* Creation times of executions from before the dashboard was set up: 31 days
\* and exactly 30 days before the start, in minutes.
History == {0 - 31 * 24 * 60, 0 - 30 * 24 * 60}

\* The state at start over a remote table that may hold an old execution, for
\* an instance never synced or with a failed attempt on record.
InitWindow ==
  /\ tunnels = [i \in Instances |-> NoEntry]
  /\ pendingTunnels = [i \in Instances |-> 0]
  /\ sess = [s \in Sids |-> NoSess]
  /\ timers = {}
  /\ now = 0
  /\ waitOn = [c \in Callers |-> 0]
  /\ ext = [c \in Ext |-> ExtIdle]
  /\ instances = DataIds
  /\ syncStatus \in {[i \in Instances |-> NoRow],
                    [i \in Instances |-> IF i \in DataIds THEN writeFailure(NoRow, "ssh")
                                          ELSE NoRow]}
  /\ isPolling = FALSE
  /\ pollTimer = FALSE
  /\ poller = "off"
  /\ cycle = IdleCycle
  /\ pass = [p \in Passes |-> IdlePass]
  /\ pendingSyncs = [i \in Instances |-> FALSE]
  /\ syncSeq = [i \in Instances |-> 0]
  /\ cl = [c \in Clients |-> ClIdle]
  /\ lastReq = "none"
  /\ nCycles = 0
  /\ inflight = [i \in Instances |-> [manual |-> 0, cycle |-> 0]]
  /\ \E h \in {NULL} \cup History :
       remote = [i \in Instances |->
                   [x \in Execs |-> IF i \in DataIds /\ x = "x1" /\ h # NULL
                                      THEN RemoteRow(x, 1, "success", h, h)
                                      ELSE NoRemote]]
  /\ cache = <<>>
  /\ skew \in Skews
  /\ probe = [t \in Probes |-> NoProbe]
  /\ api = [i \in Instances |-> "idle"]
  /\ stopped = FALSE

\* The tunnel manager under the API read path, SSH and listener events, idle
\* timers and explicit teardown.
TunnelNext ==
  \/ \E c \in Ext, id \in TunnelIds : ExtCall(c, id)
  \/ \E c \in Ext : ExtDone(c)
  \/ \E s \in Sids : SshReady(s)
  \/ \E s \in Sids : ListenBound(s)
  \/ \E s \in Sids : ListenError(s)
  \/ \E s \in Sids : SshError(s)
  \/ \E s \in Sids : SshClose(s)
  \/ \E t \in timers : IdleFire(t)
  \/ \E id \in Instances : ApiCloseTunnel(id)
  \/ Tick

\* What a tunnel creation can meet: it succeeds, or fails on the way.
CreationNext ==
  \/ \E s \in Sids : SshReady(s)
  \/ \E s \in Sids : ListenBound(s)
  \/ \E s \in Sids : ListenError(s)
  \/ \E s \in Sids : sess[s].promise = "pending" /\ SshError(s)
  \/ \E s \in Sids : sess[s].ssh = "errored" /\ SshClose(s)

\* The poller alone: the first cycle and the interval's cycles.
SweepNext ==
  \/ StartPoller
  \/ PollTimerFire
  \/ CycleListed
  \/ CursorDone("cyc")
  \/ QueryDone("cyc")
  \/ UpsertDone("cyc")
  \/ StatusDone("cyc")
  \/ FailWriteDone
  \/ CreationNext
  \/ Tick

\* Manual syncs beside the first poll cycle.
SyncNext ==
  \/ StartPoller
  \/ CycleListed
  \/ \E p \in Passes : CursorDone(p)
  \/ \E p \in Passes : QueryDone(p)
  \/ \E p \in Passes : UpsertDone(p)
  \/ \E p \in Passes : StatusDone(p)
  \/ FailWriteDone
  \/ \E c \in Clients, id \in SyncIds : TriggerSync(c, id)
  \/ \E id \in Instances : LookupDone(id)
  \/ \E c \in Clients : ClientDone(c)
  \/ CreationNext
  \/ Tick

\* Tunnels are created, used and closed by closeTunnel calls whose closes can
\* throw.
CloseNext ==
  \/ \E c \in Ext, id \in TunnelIds : ExtCall(c, id)
  \/ \E s \in Sids : SshReady(s)
  \/ \E s \in Sids : ListenBound(s)
  \/ \E s \in Sids : SshClose(s)
  \/ \E id \in Instances, thr \in SUBSET Resources : CloseCall(id, thr)

\* Manual syncs of one instance while its remote table grows.
\* Connection tests next to requests that use the managed tunnel.
ProbeNext ==
  \/ \E t \in Probes, id \in TunnelIds : TestCall(t, id)
  \/ \E t \in Probes : TestSshReady(t)
  \/ \E t \in Probes : TestListening(t)
  \/ \E t \in Probes : TestSshError(t)
  \/ \E t \in Probes : TestTimeout(t)
  \/ \E t \in Probes : TestQueryDone(t)
  \/ \E t \in Probes : TestAnswered(t)
  \/ \E c \in Ext, id \in TunnelIds : ExtCall(c, id)
  \/ \E c \in Ext : ExtDone(c)
  \/ \E s \in Sids : SshReady(s)
  \/ \E s \in Sids : ListenBound(s)
  \/ \E s \in Sids : SshClose(s)

\* Instance updates and deletes next to requests that use the tunnel.
ApiNext ==
  \/ \E id \in TunnelIds, kind \in {"update", "delete"} : ApiCall(id, kind)
  \/ \E id \in TunnelIds : ApiStoreDone(id)
  \/ \E id \in TunnelIds : ApiAnswered(id)
  \/ \E c \in Ext, id \in TunnelIds : ExtCall(c, id)
  \/ \E c \in Ext : ExtDone(c)
  \/ \E s \in Sids : SshReady(s)
  \/ \E s \in Sids : ListenBound(s)
  \/ \E s \in Sids : SshClose(s)

\* The background poller and a shutdown signal.
ShutdownNext ==
  \/ SweepNext
  \/ Shutdown

\* The background poller while idle timers run out.
EvictNext ==
  \/ SweepNext
  \/ \E t \in timers : IdleFire(t)

\* No clock skew.
InitStatus == InitData /\ skew = 0

DataNext ==
  \/ \E c \in Clients, id \in DataIds : TriggerSync(c, id)
  \/ \E id \in DataIds : LookupDone(id)
  \/ \E p \in DataIds : CursorDone(p)
  \/ \E p \in DataIds : QueryDone(p)
  \/ \E p \in DataIds : UpsertDone(p)
  \/ \E p \in DataIds : StatusDone(p)
  \/ \E c \in Clients : ClientDone(c)
  \/ \E s \in Sids : SshReady(s)
  \/ \E s \in Sids : ListenBound(s)
  \/ \E id \in DataIds, x \in Execs : RemoteInsert(id, x, "running")
  \/ Tick

\* Status strings of the remote rows the syncs below fetch.
StatusSamples == {"Success", "CRASHED", "unknown", "cancelled", "Running", "bogus", "waiting"}

\* Manual syncs of one instance whose remote rows hold these status strings.
StatusNext ==
  \/ \E c \in Clients, id \in DataIds : TriggerSync(c, id)
  \/ \E id \in DataIds : LookupDone(id)
  \/ \E p \in DataIds : CursorDone(p)
  \/ \E p \in DataIds : QueryDone(p)
  \/ \E p \in DataIds : UpsertDone(p)
  \/ \E p \in DataIds : StatusDone(p)
  \/ \E c \in Clients : ClientDone(c)
  \/ \E s \in Sids : SshReady(s)
  \/ \E s \in Sids : ListenBound(s)
  \/ \E id \in DataIds, x \in Execs, st \in StatusSamples : RemoteInsert(id, x, st)

\* The rows a batch statement can be given, with statuses of Sts: one row, or
\* a row of each execution with like contents.
BatchesOf(Sts) ==
  LET R(x) == {RemoteRow(x, v, st, v, started) :
                 v \in Versions, st \in Sts, started \in {NULL} \cup Versions}
  IN {{r} : r \in UNION {R(x) : x \in Execs}}
     \cup {{RemoteRow(x, v, st, v, v) : x \in Execs} : v \in Versions, st \in Sts}

Batches == BatchesOf(RawStatuses)

\* The batch upsert on its own.
UpsertNext == \E id \in DataIds, S \in Batches : UpsertRows(id, S)

\* Statuses of the rows that are upserted again.
RerunStatuses == {"Success", "cancelled"}

\* Batches run again with other contents.
RerunNext == \E id \in DataIds, S \in BatchesOf(RerunStatuses) : UpsertRows(id, S)

Next ==
  \/ TunnelNext
  \/ Shutdown
  \/ \E id \in Instances, kind \in {"update", "delete"} : ApiCall(id, kind)
  \/ \E id \in Instances : ApiStoreDone(id) \/ ApiAnswered(id)
  \/ \E t \in Probes, id \in Instances : TestCall(t, id)
  \/ \E t \in Probes : TestSshReady(t) \/ TestListening(t) \/ TestSshError(t)
  \/ \E t \in Probes : TestTimeout(t) \/ TestQueryDone(t) \/ TestAnswered(t)
  \/ UpsertNext
  \/ \E id \in Instances, x \in Execs, st \in RawStatuses :
       RemoteInsert(id, x, st) \/ RemoteUpdate(id, x, st)
  \/ \E id \in Instances, thr \in SUBSET Resources : CloseCall(id, thr)
  \/ SweepNext
  \/ \E p \in Passes : CursorDone(p) \/ QueryDone(p) \/ UpsertDone(p) \/ StatusDone(p)
  \/ \E c \in Clients, id \in Instances : TriggerSync(c, id)
  \/ \E id \in Instances : LookupDone(id)
  \/ \E c \in Clients : ClientDone(c)

Spec == Init /\ [][Next]_vars
SpecTunnel == Init /\ [][TunnelNext]_vars
SpecSweep == Init /\ [][SweepNext]_vars
SpecSync == InitSync /\ [][SyncNext]_vars
SpecClose == Init /\ [][CloseNext]_vars
SpecData == InitData /\ [][DataNext]_vars
SpecWindow == InitWindow /\ [][DataNext]_vars
SpecProbe == Init /\ [][ProbeNext]_vars
SpecApi == Init /\ [][ApiNext]_vars
SpecShutdown == Init /\ [][ShutdownNext]_vars
SpecEvict == Init /\ [][EvictNext]_vars
SpecStatus == InitStatus /\ [][StatusNext]_vars
SpecRerun == Init /\ [][RerunNext]_vars

\* ------------------------------------------------------------------ claims

\* The creations of id that have not settled.
Creations(id) == {s \in Sids : sess[s].inst = id /\ sess[s].promise = "pending"}

\* C1: concurrent getPoolForInstance calls for an instance without a live
\* tunnel share one creation. An instance never has more than one unsettled
\* creation, and that one is the pendingTunnels entry; every call that waits
\* for a tunnel of the instance waits for that creation; the calls that waited
\* for one creation resolve together, each with the pool that creation built.
C1_SingleCreation ==
  \A id \in Instances :
    /\ Cardinality(Creations(id)) <= 1
    /\ Creations(id) = IF pendingTunnels[id] = 0 THEN {} ELSE {pendingTunnels[id]}
    /\ \A c \in Callers :
         waitOn[c] # 0 /\ sess[waitOn[c]].inst = id => waitOn[c] = pendingTunnels[id]
    /\ \A c, d \in Ext :
         /\ ext[c].inst = id /\ ext[c].st = "ok" /\ ext[c].joined # 0
              => ext[c].pool = ext[c].joined
         /\ ext[c].inst = id /\ ext[d].inst = id /\ ext[c].st = "ok"
            /\ ext[c].joined # 0 /\ ext[d].joined = ext[c].joined
              => /\ ext[d].st = "ok"
                 /\ ext[d].pool = ext[c].pool
                 /\ sess[ext[d].pool].port = sess[ext[c].pool].port

\* Two calls waited for the same creation and both hold its pool.
C1_Witness ==
  \E c, d \in Ext :
    /\ c # d
    /\ ext[c].st = "ok" /\ ext[d].st = "ok"
    /\ ext[c].joined # 0 /\ ext[d].joined = ext[c].joined
    /\ ext[c].pool = ext[d].pool /\ sess[ext[c].pool].pool = "open"

\* A step in which creation s is rejected.
Rejected(s) == sess[s].promise = "pending" /\ sess'[s].promise = "rejected"

C8_Step ==
  /\ \A s \in Sids :
       Rejected(s) =>
         LET id == sess[s].inst
         IN /\ pendingTunnels'[id] = 0
            /\ tunnels'[id] = NoEntry
            /\ \A c \in Callers : waitOn[c] = s => waitOn'[c] = 0
            /\ \A c \in Ext :
                 waitOn[c] = s => ext'[c].st = "err" /\ ext'[c].err \in {"ssh", "bind"}
  /\ \A c \in Ext :
       ext[c].st = "idle" /\ ext'[c].st = "err" =>
         ext'[c].err = "key" /\ pendingTunnels'[ext'[c].inst] = 0
  /\ \A c \in Ext :
       LET id == ext'[c].inst
       IN ext[c].st = "idle" /\ ext'[c].st # "idle"
          /\ tunnels[id].sid = 0 /\ pendingTunnels[id] = 0
            => /\ ext'[c].joined # 0
               /\ sess[ext'[c].joined].inst = "none"
               /\ sess'[ext'[c].joined].inst = id

\* C8: when a tunnel creation fails, every caller waiting on it gets the
\* failure and the in-progress marker of the instance is cleared (no entry is
\* registered either); a call that finds neither marker nor entry starts a
\* new creation on a new SSH client.
C8_FailureClearsPending == [][C8_Step]_vars

\* Two callers waited on one creation and both got its failure.
C8_Witness ==
  \E c, d \in Ext :
    /\ c # d
    /\ ext[c].st = "err" /\ ext[d].st = "err"
    /\ ext[c].joined # 0 /\ ext[d].joined = ext[c].joined
    /\ ext[c].err \in {"ssh", "bind"} /\ ext[d].err = ext[c].err
    /\ pendingTunnels[ext[c].inst] = 0

\* The entry of id is gone and everything it held is closed.
TornDown(id, s) ==
  /\ tunnels'[id] = NoEntry
  /\ pendingTunnels'[id] = 0
  /\ \A t \in timers' : t.id # id
  /\ sess'[s].pool # "open"
  /\ sess'[s].lst # "open"
  /\ sess'[s].ssh \notin {"connecting", "ready"}

C9_Step ==
  \A s \in Sids :
    (SshError(s) \/ SshClose(s)) /\ tunnels[sess[s].inst].sid = s
      => TornDown(sess[s].inst, s)

\* C9: an 'error' or 'close' event of the SSH session of a registered tunnel
\* removes the entry, cancels its idle timer and closes pool, listener and
\* session; no creation is pending then, so the next call creates a tunnel.
C9_SessionLossTearsDown == [][C9_Step]_vars

\* A session that had been registered got an error and its tunnel is gone.
C9_Witness ==
  \E s \in Sids :
    /\ sess[s].promise = "resolved" /\ sess[s].ssh = "errored"
    /\ sess[s].pool = "ended" /\ sess[s].lst = "closed"
    /\ tunnels[sess[s].inst].sid = 0

\* Every registered entry has its idle timer armed for IDLE_TIMEOUT after the
\* entry's last acquisition.
C10_Armed ==
  \A id \in Instances :
    tunnels[id].sid # 0 =>
      /\ tunnels[id].idleTimer \in timers
      /\ tunnels[id].idleTimer.id = id
      /\ tunnels[id].idleTimer.due = tunnels[id].lastUsed + IDLE_TIMEOUT_MIN

C10_Step ==
  /\ \A t \in timers :
       IdleFire(t) /\ tunnels[t.id].sid # 0 =>
         /\ now >= tunnels[t.id].lastUsed + IDLE_TIMEOUT_MIN
         /\ TornDown(t.id, tunnels[t.id].sid)
  /\ \A c \in Ext :
       ext[c].st # "ok" /\ ext'[c].st = "ok" => tunnels'[ext'[c].inst].lastUsed = now

\* C10: each acquisition stamps the entry and re-arms its idle timer for
\* IDLE_TIMEOUT later; when the timer fires, the window has passed without an
\* acquisition and the tunnel is torn down like any other, so the next call
\* creates a fresh one.
C10_IdleTeardown == []C10_Armed /\ [][C10_Step]_vars

\* A registered tunnel whose idle window has passed with no acquisition.
C10_Witness ==
  \E id \in Instances :
    /\ tunnels[id].sid # 0
    /\ now >= tunnels[id].lastUsed + IDLE_TIMEOUT_MIN
    /\ tunnels[id].idleTimer \in timers

C2_Inv ==
  \A id \in Instances :
    /\ pendingSyncs[id] <=> pass[id].pc # "idle"
    /\ \A c \in Clients :
         cl[c].st = "wait" /\ cl[c].inst = id => pendingSyncs[id] /\ cl[c].grp = syncSeq[id]
    /\ \A c, d \in Clients :
         cl[c].inst = id /\ cl[d].inst = id /\ cl[c].grp = cl[d].grp
         /\ cl[c].st \in {"ok", "err"}
           => cl[d].st = cl[c].st /\ cl[d].out = cl[c].out

C2_Step ==
  /\ \A id \in Instances :
       /\ syncSeq'[id] # syncSeq[id] =>
            ~pendingSyncs[id] /\ syncSeq'[id] = syncSeq[id] + 1 /\ pass'[id].pc = "lookup"
       /\ inflight'[id].manual > inflight[id].manual =>
            pass[id].pc = "lookup" /\ inflight[id].manual = 0
  /\ \A c \in Clients :
       LET id == cl'[c].inst
       IN /\ cl[c].st = "idle" /\ cl'[c].st = "wait" /\ ~pendingSyncs[id]
               => syncSeq'[id] = syncSeq[id] + 1 /\ pendingSyncs'[id]
          /\ cl[c].st = "wait" /\ cl'[c].st # "wait"
               => ~pendingSyncs'[cl[c].inst] /\ pass'[cl[c].inst].pc = "idle"
          /\ cl[c].st = "wait" /\ cl'[c].st = "ok" => pass[cl[c].inst].pc = "status"

\* C2: calls of triggerSyncForInstance for one id that overlap attach to one
\* pending sync. A sync is started only when none is pending for the id, it
\* calls pollInstance once, and the callers resolve only as its pass completes;
\* all callers attached to a sync get the same outcome; the marker is present
\* exactly while the sync runs, so a call after its end starts a new one.
C2_ManualSyncDedup == []C2_Inv /\ [][C2_Step]_vars

\* Two callers attached to the same sync have both seen it succeed.
C2_Witness ==
  \E c, d \in Clients :
    /\ c # d
    /\ cl[c].st = "ok" /\ cl[d].st = "ok"
    /\ cl[c].inst = cl[d].inst /\ cl[c].grp = cl[d].grp
    /\ syncStatus[cl[c].inst].lastSyncSuccess

C3_Inv ==
  /\ isPolling <=> cycle.pc # "idle"
  /\ pass["cyc"].pc # "idle" => isPolling

C3_Step ==
  /\ nCycles' # nCycles => ~isPolling /\ isPolling' /\ nCycles' = nCycles + 1
  /\ PollTimerFire /\ isPolling =>
       /\ lastReq' = "skipped"
       /\ UNCHANGED <<syncStatus, isPolling, pollTimer, poller, cycle, pass, pendingSyncs,
                      syncSeq, cl, nCycles, inflight, now, instances>>
       /\ UNCHANGED tvars
       /\ UNCHANGED dvars
       /\ UNCHANGED avars
  /\ isPolling /\ ~isPolling' => nCycles' = nCycles /\ cycle' = IdleCycle

\* C3: at most one poll cycle runs. A cycle starts only while isPolling is
\* false; a pollAllInstances call made while a cycle runs changes nothing (no
\* pass, no query, no write to the cache), and when the running cycle ends no
\* cycle starts with it.
C3_SingleCycle == []C3_Inv /\ [][C3_Step]_vars

\* The interval fired while a cycle was waiting for a remote query.
C3_Witness == lastReq = "skipped" /\ isPolling /\ pass["cyc"].pc = "query"

\* pollInstance has been called and has neither returned nor thrown.
Running == {"acquire", "cursor", "query", "upsert", "status"}

\* C4 as stated: per instance at most one pollInstance pass in flight, counting
\* the poll cycle's and the manual ones.
C4_OnePassPerInstance ==
  \A id \in Instances : inflight[id].manual + inflight[id].cycle <= 1

\* C4 amended: per instance at most one manual pass is in flight, and at most
\* one pass of the poll cycle is in flight at all.
C4_OnePassPerOrigin ==
  /\ \A id \in Instances :
       /\ inflight[id].manual = IF pass[id].pc \in Running THEN 1 ELSE 0
       /\ inflight[id].cycle =
            IF pass["cyc"].pc \in Running /\ pass["cyc"].inst = id THEN 1 ELSE 0
  /\ Cardinality({id \in Instances : inflight[id].cycle > 0}) <= 1

\* The poll cycle's pass and a manual pass for the same instance both wait for
\* their remote queries.
C4_Witness ==
  \E id \in Instances :
    /\ inflight[id].manual = 1 /\ inflight[id].cycle = 1
    /\ pass[id].pc = "query" /\ pass["cyc"].pc = "query"

C5_Step ==
  /\ \A id \in Instances :
       syncStatus'[id].lastSyncedAt # syncStatus[id].lastSyncedAt =>
         \E p \in Passes :
           /\ pass[p].pc = "status" /\ pass[p].inst = id
           /\ syncStatus'[id] = writeSuccess(syncStatus[id], pass[p].at, pass[p].upsertedCount)
           /\ inflight'[id][Origin(p)] = inflight[id][Origin(p)] - 1
           /\ p = "cyc" => pass'[p].pc # "failWrite" \/ pass'[p].inst # id \/ cycle'.idx # cycle.idx
           /\ p # "cyc" => \A c \in Clients : cl[c].st = "wait" /\ cl[c].inst = id => cl'[c].st = "ok"
  /\ \A p \in Passes :
       pass[p].pc \in Running /\ (pass'[p].pc = "failWrite" \/ \E c \in Clients : cl[c].st = "wait" /\ cl'[c].st = "err")
         => syncStatus' = syncStatus
  /\ FailWriteDone => \A id \in Instances : syncStatus'[id].lastSyncedAt = syncStatus[id].lastSyncedAt

\* C5: a pass that fails never moves lastSyncedAt. The column changes only in
\* the step in which a pass for that instance completes its final sync_status
\* write; the step in which a pass fails changes no row, and the failure write
\* of the poll cycle keeps the column.
C5_CursorKept == [][C5_Step]_vars

\* A failure has been recorded for an instance that had been synced before,
\* and the old cursor is still there.
C5_Witness ==
  \E id \in Instances :
    /\ syncStatus[id].present /\ ~syncStatus[id].lastSyncSuccess
    /\ syncStatus[id].lastSyncError \in {"key", "ssh", "bind", "db", "query"}
    /\ syncStatus[id].lastSyncedAt # NULL

\* The sync_status row of id shows a failure with message msg.
ShowsFailure(row, msg) == row.present /\ ~row.lastSyncSuccess /\ row.lastSyncError = msg

C6_Step ==
  /\ \A c \in Clients :
       /\ cl[c].st = "wait" /\ cl'[c].st = "err" /\ cl'[c].out \in {"key", "ssh", "bind", "query"}
            => ShowsFailure(syncStatus'[cl[c].inst], cl'[c].out)
       /\ cl[c].st = "wait" /\ cl'[c].st = "ok"
            => syncStatus'[cl[c].inst].present /\ syncStatus'[cl[c].inst].lastSyncSuccess
  /\ pass["cyc"].pc = "failWrite" /\ syncStatus' # syncStatus
       => ShowsFailure(syncStatus'[pass["cyc"].inst], pass["cyc"].err)

\* C6 as stated: when a sync attempt ends, the sync_status row of its instance
\* shows that attempt's outcome; after an attempt that failed on the tunnel or
\* the remote query, lastSyncSuccess is false and lastSyncError is its message.
C6_StatusReflectsAttempt == [][C6_Step]_vars

C7_Step ==
  isPolling /\ ~isPolling' /\ cycle.pc = "sweep" => cycle.idx = Len(cycle.list)

\* C7 as stated: a poll cycle that has listed the instances ends only after
\* pollInstance has been called for the last instance of its list.
C7_SweepReachesAll == [][C7_Step]_vars

\* Caller c gets a pool for id in this step.
Acquires(c, id) == ext[c].st # "ok" /\ ext'[c].st = "ok" /\ ext'[c].inst = id

\* The only timers are the idle timers of the registered entries.
C11_NoStaleTimer == \A t \in timers : tunnels[t.id].idleTimer = t

C11_Step ==
  \A id \in Instances :
    /\ \A c \in Ext :
         Acquires(c, id) =>
           /\ tunnels'[id].sid = ext'[c].pool
           /\ tunnels'[id].lastUsed = now
           /\ tunnels'[id].idleTimer \in timers'
           /\ tunnels'[id].idleTimer.due = now + IDLE_TIMEOUT_MIN
           /\ \A t \in timers' : t.id = id => t = tunnels'[id].idleTimer
    /\ tunnels[id].sid # 0 /\ tunnels'[id].sid = tunnels[id].sid
       /\ tunnels'[id].lastUsed # tunnels[id].lastUsed
         => \E c \in Ext : Acquires(c, id)
    /\ \A t \in timers :
         IdleFire(t) /\ t.id = id /\ tunnels[id].sid # 0
           => now >= tunnels[id].lastUsed + IDLE_TIMEOUT_MIN

\* C11: a getPoolForInstance call that yields a pool, on any of its three
\* paths, leaves the entry stamped with the current time and with exactly one
\* timer, due IDLE_TIMEOUT later; the stamp of a registered entry moves only
\* with an acquisition, no timer of an earlier window survives, and the idle
\* timer fires no earlier than IDLE_TIMEOUT after the stamp.
C11_WindowRestarts == []C11_NoStaleTimer /\ [][C11_Step]_vars

\* A call found the registered entry after time had passed and moved its
\* timer beyond the first window.
C11_Witness ==
  \E c \in Ext :
    /\ ext[c].st = "ok" /\ ext[c].joined = 0
    /\ now > 0
    /\ tunnels[ext[c].inst].sid = ext[c].pool
    /\ tunnels[ext[c].inst].lastUsed = now
    /\ tunnels[ext[c].inst].idleTimer.due = now + IDLE_TIMEOUT_MIN

\* Without an entry for id, closeTunnel(id) leaves the whole state as it is.
C12_Absent ==
  \A id \in Instances, thr \in SUBSET Resources :
    tunnels[id].sid = 0 => closeTunnelThrowing(WState, id, thr) = WState

C12_Step ==
  \A id \in Instances, thr \in SUBSET Resources :
    CloseCall(id, thr) =>
      IF tunnels[id].sid = 0 THEN UNCHANGED vars
      ELSE LET s == tunnels[id].sid
           IN /\ tunnels'[id] = NoEntry
              /\ \A j \in Instances \ {id} : tunnels'[j] = tunnels[j]
              /\ timers' = timers \ {tunnels[id].idleTimer}
              /\ "pool" \notin thr => sess'[s].pool # "open"
              /\ "lst" \notin thr => sess'[s].lst # "open"
              /\ "ssh" \notin thr => sess'[s].ssh \notin {"connecting", "ready"}
              /\ \A r \in Sids \ {s} : sess'[r] = sess[r] \/ sess'[r] = NoSess
              /\ pendingTunnels' = pendingTunnels

\* C12: closeTunnel(id) on a registered entry cancels the entry's idle timer,
\* removes the entry and closes each of pool, listener and SSH session whose
\* close does not throw, whichever of the other closes throw; on an id without
\* an entry it changes nothing.
C12_CloseTunnel == []C12_Absent /\ [][C12_Step]_vars

\* pool.end() threw in a closeTunnel call: the entry is gone and listener and
\* session were closed all the same.
C12_Witness ==
  \E s \in Sids :
    /\ sess[s].pool = "open" /\ sess[s].lst = "closed" /\ sess[s].ssh = "ended"
    /\ tunnels[sess[s].inst].sid # s

\* The executions of instance id that have a row in the cache.
Cached(c, id) == {c[k].executionId : k \in {j \in 1..Len(c) : c[j].instanceId = id}}

\* The manual sync of id ends in this step with success.
SyncSucceeds(id) ==
  \E c \in Clients : cl[c].st = "wait" /\ cl[c].inst = id /\ cl'[c].st = "ok"

C13_Step ==
  \A id \in DataIds :
    SyncSucceeds(id) => pass[id].existed \subseteq Cached(cache', id)

\* C13 as stated: when a sync pass succeeds, every remote row that existed
\* when the pass started is in the cache (all rows of the model are created
\* within the 30 days before the first sync, and the remote clock is within
\* 5 minutes of the local one).
C13_NoRowMissed == [][C13_Step]_vars

\* No two cached rows have the same (instance id, execution id).
C14_OnePerKey ==
  \A j, k \in 1..Len(cache) :
    (cache[j].instanceId = cache[k].instanceId
       /\ cache[j].executionId = cache[k].executionId) => j = k

\* What one upserted row leaves in the cache: a row of a new key is stored
\* whole; on a key that was cached the seven mutable columns take the values
\* of this run and every other column keeps the value it had.
C14_RowStep(val) ==
  LET old == Conflicts(cache, val)
      new == Conflicts(cache', val)
  IN /\ Cardinality(new) = 1
     /\ \A k \in new :
          IF old = {} THEN cache'[k] = val
          ELSE /\ k \in old
               /\ cache'[k].status = val.status
               /\ cache'[k].finished = val.finished
               /\ cache'[k].finishedAt = val.finishedAt
               /\ cache'[k].durationMs = val.durationMs
               /\ cache'[k].errorMessage = val.errorMessage
               /\ cache'[k].executionData = val.executionData
               /\ cache'[k].workflowData = val.workflowData
               /\ cache'[k].startedAt = cache[k].startedAt
               /\ cache'[k].createdAt = cache[k].createdAt

C14_Step ==
  \A id \in DataIds, S \in BatchesOf(RerunStatuses) :
    UpsertRows(id, S) => \A r \in S : C14_RowStep(toValues(id, r))

\* C14: upserting rows of an instance again leaves exactly one cached row per
\* (instance id, execution id); status, finished flag, finish time, duration,
\* error message and both payload blobs take the later run's values, start
\* time and creation time keep the first run's values.
C14_UpsertTwice == []C14_OnePerKey /\ [][C14_Step]_vars

\* A row upserted twice: payload of the second run, start and creation time
\* of the first, which differ from the second run's.
C14_Witness ==
  \E k \in 1..Len(cache) :
    /\ cache[k].workflowData = 2 /\ cache[k].status = "canceled"
    /\ cache[k].createdAt = 1 /\ cache[k].startedAt = NULL

\* The cached row k was written from the remote row of its execution, whose
\* status column holds raw.
WrittenFrom(k, raw) ==
  /\ cache[k].instanceId \in DataIds
  /\ remote[cache[k].instanceId][cache[k].executionId].present
  /\ remote[cache[k].instanceId][cache[k].executionId].status = raw

\* C15: every row a sync pass writes holds one of the five canonical status
\* values; "Success" is stored as success, "CRASHED" as error, "unknown" as
\* error, "cancelled" as canceled, "Running" as running, a canonical value as
\* itself and an unrecognized value as error.
C15_CanonicalStatus ==
  \A k \in 1..Len(cache) :
    /\ cache[k].status \in ExecutionStatus
    /\ WrittenFrom(k, "Success") => cache[k].status = "success"
    /\ WrittenFrom(k, "CRASHED") => cache[k].status = "error"
    /\ WrittenFrom(k, "unknown") => cache[k].status = "error"
    /\ WrittenFrom(k, "cancelled") => cache[k].status = "canceled"
    /\ WrittenFrom(k, "Running") => cache[k].status = "running"
    /\ WrittenFrom(k, "bogus") => cache[k].status = "error"
    /\ \A st \in ExecutionStatus : WrittenFrom(k, st) => cache[k].status = st

\* A pass has stored the rows of a "CRASHED" and of a "cancelled" execution.
C15_Witness ==
  \E j, k \in 1..Len(cache) :
    /\ WrittenFrom(j, "CRASHED") /\ cache[j].status = "error"
    /\ WrittenFrom(k, "cancelled") /\ cache[k].status = "canceled"

\* A step of a testConnection call.
TestStep == probe' # probe

\* C16: no step of testConnection, whatever its outcome, changes the tunnel
\* registry or the pending-creation table, and the managed sessions (a tunnel
\* of the same instance among them) and their idle timers are left as they are.
C16_ProbeFrame ==
  [][TestStep => UNCHANGED <<tunnels, pendingTunnels, sess, timers>>]_vars

\* A probe of an instance has returned, having opened and closed its own
\* resources, while the managed tunnel of that instance is registered and open.
C16_Witness ==
  \E t \in Probes :
    /\ probe[t].pc = "done" /\ probe[t].pool = "ended"
    /\ tunnels[probe[t].inst].sid # 0
    /\ sess[tunnels[probe[t].inst].sid].pool = "open"
    /\ sess[tunnels[probe[t].inst].sid].ssh = "ready"

\* C17: once testConnection has returned, on any path, the probe has no open
\* pool, no bound or binding listener and no live SSH session, then and later.
C17_ProbeClosed ==
  \A t \in Probes :
    probe[t].pc = "done" =>
      /\ probe[t].pool # "open"
      /\ probe[t].server \notin {"binding", "listening"}
      /\ probe[t].ssh \notin {"connecting", "ready"}

\* The probe timed out after its session was ready and had opened a listener.
C17_Witness ==
  \E t \in Probes :
    /\ probe[t].pc = "done" /\ probe[t].out = "timeout"
    /\ probe[t].server = "closed" /\ probe[t].ssh = "ended"

C18_Step ==
  \A id \in Instances :
    api[id] \in {"update", "delete"} /\ api'[id] = "ok" =>
      /\ tunnels'[id] = NoEntry
      /\ tunnels[id].sid # 0 =>
           /\ tunnels[id].idleTimer \notin timers'
           /\ sess'[tunnels[id].sid].pool # "open"
           /\ sess'[tunnels[id].sid].lst # "open"
           /\ sess'[tunnels[id].sid].ssh \notin {"connecting", "ready"}

\* C18: when an update or a delete of an instance through the API has
\* succeeded and is answered, the registry holds no entry for that id: the
\* entry that was active has been removed, its idle timer cancelled and its
\* pool, listener and SSH session closed.
C18_ApiInvalidates == [][C18_Step]_vars

\* An update has been answered and the tunnel that served the instance until
\* then is torn down.
C18_Witness ==
  \E id \in Instances, s \in Sids :
    /\ api[id] = "ok" /\ tunnels[id].sid = 0
    /\ sess[s].inst = id /\ sess[s].pool = "ended" /\ sess[s].ssh = "ended"

\* After the shutdown handler the interval is not set.
C19_TimerOff == stopped => ~pollTimer

\* After the shutdown handler no poll cycle starts.
C19_NoNewCycle == stopped => nCycles' = nCycles /\ (isPolling' => isPolling)

\* What the shutdown handler leaves: no interval, an empty registry, and for
\* every entry there was: its idle timer cancelled and its resources closed.
C19_ShutStep ==
  Shutdown =>
    /\ ~pollTimer'
    /\ \A id \in Instances :
         /\ tunnels'[id] = NoEntry
         /\ tunnels[id].sid # 0 =>
              /\ tunnels[id].idleTimer \notin timers'
              /\ sess'[tunnels[id].sid].pool # "open"
              /\ sess'[tunnels[id].sid].lst # "open"
              /\ sess'[tunnels[id].sid].ssh \notin {"connecting", "ready"}

\* C19: the shutdown handler cancels the poll timer and then tears the
\* tunnels down; afterwards no global poll cycle starts, and when
\* closeAllTunnels has returned the registry is empty, every former entry's
\* idle timer is cancelled and its pool, listener and SSH session are closed.
C19_Shutdown == []C19_TimerOff /\ [][C19_NoNewCycle /\ C19_ShutStep]_vars

\* Shutdown came while a timer-started cycle was running and a tunnel was
\* registered: the tunnel is torn down, the cycle is still in flight.
C19_Witness ==
  /\ stopped /\ isPolling /\ ~pollTimer
  /\ \A id \in Instances : tunnels[id].sid = 0
  /\ \E s \in Sids : sess[s].pool = "ended" /\ sess[s].ssh = "ended"

\* The callers that wait for the manual sync of id.
Awaiting(id) == {c \in Clients : cl[c].st = "wait" /\ cl[c].inst = id}

C20_Step ==
  \A id \in Instances :
    (/\ pass[id].pc = "lookup" /\ pass'[id].pc # "lookup"
     /\ id \notin instances
     /\ \A c \in Awaiting(id) : cl'[c].out # "db")
    => /\ \A c \in Awaiting(id) : cl'[c].st = "err" /\ cl'[c].out = "notfound"
       /\ UNCHANGED <<tunnels, pendingTunnels, sess, timers>>
       /\ pass'[id] = IdlePass
       /\ inflight' = inflight
       /\ cache' = cache
       /\ syncStatus' = syncStatus
       /\ ~pendingSyncs'[id]

\* C20: a manual sync of an id without a configured instance, once its lookup
\* has returned, fails every caller with "Instance not found"; no tunnel is
\* acquired, no pollInstance and so no remote query starts, no cache or
\* sync-status row is written, and the pending-sync marker of the id is
\* cleared.
C20_NotFound == [][C20_Step]_vars

\* Two callers of the same sync were both told that the instance is not there.
C20_Witness ==
  /\ \A c \in Clients : cl[c].st = "err" /\ cl[c].out = "notfound"
  /\ \A id \in Instances : ~pendingSyncs[id]
  /\ instances = {}
  /\ cache = <<>>

\* C21 as stated: once the first cycle of startPoller is over, however it
\* ended, and until stopPoller is called, the 60 s interval that requests
\* the next cycles is set.
C21_IntervalSet == (poller \in {"on", "failed"} /\ ~stopped) => pollTimer

\* C22: an instance id never has two tunnel creations in flight, and never a
\* creation in flight next to a registered entry.
C22_EntryOrCreation ==
  \A id \in Instances :
    /\ Cardinality(Creations(id)) <= 1
    /\ tunnels[id].sid # 0 => Creations(id) = {} /\ pendingTunnels[id] = 0

\* A creation is in flight for an id whose earlier tunnel was torn down and
\* whose old session has not yet reported its close.
C22_Witness ==
  \E id \in Instances, s \in Sids :
    /\ Cardinality(Creations(id)) = 1 /\ tunnels[id].sid = 0
    /\ sess[s].inst = id /\ sess[s].ssh = "ended" /\ s \notin Creations(id)

C23_Step ==
  \A s \in Sids :
    (/\ SshError(s) \/ SshClose(s)
     /\ sess[s].ssh = "ended"
     /\ tunnels[sess[s].inst].sid \notin {0, s})
    => tunnels'[sess[s].inst] = tunnels[sess[s].inst]

\* C23 as stated: an error or close event of an SSH session that closeTunnel
\* has ended leaves a newer entry registered for the same instance id in
\* place.
C23_StaleEventHarmless == [][C23_Step]_vars

\* C24 as stated: of a tunnel creation whose promise was rejected no SSH
\* session, listener or pool is open (or about to open) and no entry is
\* registered.
C24_FailedCreationClosed ==
  \A s \in Sids :
    sess[s].promise = "rejected" =>
      /\ sess[s].ssh \notin {"connecting", "ready"}
      /\ sess[s].lst \notin {"binding", "open"}
      /\ sess[s].pool # "open"
      /\ \A id \in Instances : tunnels[id].sid # s

\* The position of a step in pollInstance.
Rank(pc) ==
  CASE pc = "acquire" -> 1
    [] pc = "cursor" -> 2
    [] pc = "query" -> 3
    [] pc = "upsert" -> 4
    [] pc = "status" -> 5
    [] OTHER -> 0

\* Pass p is the same pollInstance call before and after the step.
SamePass(p) ==
  /\ Rank(pass[p].pc) > 0 /\ Rank(pass'[p].pc) > 0
  /\ pass'[p].inst = pass[p].inst
  /\ IF p = "cyc" THEN cycle'.idx = cycle.idx /\ nCycles' = nCycles
     ELSE syncSeq'[p] = syncSeq[p]

C25_Step ==
  /\ \A id \in Instances :
       (syncStatus'[id] # syncStatus[id] /\ syncStatus'[id].lastSyncSuccess) =>
         \E p \in Passes :
           /\ pass[p].pc = "status" /\ pass[p].inst = id
           /\ pass[p].i >= pass[p].rows
           /\ pass[p].upsertedCount = pass[p].rows
           /\ pass[p].fetched = {}
           /\ pass[p].at <= now
           /\ syncStatus'[id] = [present |-> TRUE, lastSyncedAt |-> pass[p].at,
                                 lastSyncSuccess |-> TRUE, lastSyncError |-> "none",
                                 lastSyncRecordCount |-> pass[p].rows]
           /\ ~SamePass(p)
           /\ inflight'[id][Origin(p)] = inflight[id][Origin(p)] - 1
  /\ \A p \in Passes :
       (SamePass(p) /\ pass'[p] # pass[p]) =>
         \/ Rank(pass'[p].pc) = Rank(pass[p].pc) + 1
         \/ pass[p].pc = "upsert" /\ pass'[p].pc = "upsert" /\ pass'[p].i > pass[p].i
         \/ pass[p].pc = "query" /\ pass'[p].pc = "status" /\ pass'[p].rows = 0

\* C25: the success row of sync_status is written only by the last step of a
\* pass, after every batch of the pass was upserted, with lastSyncedAt the
\* time of the write, success true, no error and the number of rows the pass
\* fetched and upserted; the steps of a pass follow each other in the order
\* acquire, read of the cursor, query, upsert (batch by batch), status write.
C25_SuccessLast == [][C25_Step]_vars

\* A pass of two batches has written its success row with all 600 rows.
C25_Witness ==
  \E id \in Instances :
    /\ syncStatus[id].present /\ syncStatus[id].lastSyncSuccess
    /\ syncStatus[id].lastSyncRecordCount = 600

C26_Step ==
  \A c \in Ext :
    (ext[c].st # "ok" /\ ext'[c].st = "ok") => sess'[ext'[c].pool].cfg # "old"

\* C26 as stated: a pool that getPoolForInstance returns is never backed by a
\* tunnel made from the connection parameters an instance had before an
\* update that has completed.
C26_NoStalePool == [][C26_Step]_vars

C27_Step ==
  stopped => \A id \in Instances : tunnels'[id].sid \in {0, tunnels[id].sid}

\* C27 as stated: once the shutdown handler has run, no entry is put into
\* the tunnel registry.
C27_NoTunnelAfterShutdown == [][C27_Step]_vars

\* The lower bound of a pass with this cursor, at the time its query runs.
LowerBound(cursor) ==
  IF cursor = NULL THEN (now + skew) - 30 * 24 * 60 ELSE cursor - 5

C28_Step ==
  \A p \in DataIds :
    /\ (pass[p].pc = "cursor" /\ pass'[p].pc = "query") =>
         pass'[p].cursor = syncStatus[pass[p].inst].lastSyncedAt
    /\ (pass[p].pc = "query" /\ pass'[p].pc \in {"upsert", "status"}) =>
         pass'[p].fetched =
           {remote[pass[p].inst][x] :
              x \in {y \in Execs : /\ remote[pass[p].inst][y].present
                                   /\ remote[pass[p].inst][y].created_at
                                        >= LowerBound(pass[p].cursor)}}

\* C28: the query of a pass returns exactly the remote rows created at or
\* after its lower bound: 30 days before the time of the query when the
\* instance has no lastSyncedAt on record (no sync_status row, or a row of
\* failed attempts only), else lastSyncedAt minus 5 minutes.
C28_FetchWindow == [][C28_Step]_vars

\* A first pass has fetched a new execution and left out one older than 30 days.
C28_Witness ==
  \E p \in DataIds :
    /\ pass[p].pc \in {"upsert", "status"} /\ pass[p].cursor = NULL
    /\ remote[pass[p].inst]["x1"].present
    /\ remote[pass[p].inst]["x1"].created_at < LowerBound(NULL)
    /\ \E r \in pass[p].fetched : r.execution_id = "x2"
    /\ \A r \in pass[p].fetched : r.execution_id # "x1"

\* Every scheduled idle timer is the one its id's registry entry holds.
C29_TimersOwned ==
  \A t \in timers :
    /\ tunnels[t.id].sid # 0
    /\ tunnels[t.id].idleTimer = t
    /\ tunnels[t.id].sid = t.owner

\* A firing idle timer tears down the entry it was scheduled for.
C29_FireStep ==
  \A t \in timers :
    IdleFire(t) => tunnels[t.id].sid = t.owner /\ tunnels'[t.id] = NoEntry

\* C29: every scheduled idle timer belongs to a registered entry, which holds
\* exactly that timer, so an entry has at most one timer and an id without an
\* entry has none; a timer that fires tears down the entry it was set for.
C29_OneTimerPerEntry == []C29_TimersOwned /\ [][C29_FireStep]_vars

\* A second tunnel of an id is registered with its own timer after the first
\* was torn down, and only that timer is scheduled.
C29_Witness ==
  \E id \in Instances, s \in Sids :
    /\ tunnels[id].sid \notin {0, s}
    /\ sess[s].inst = id /\ sess[s].pool = "ended"
    /\ timers = {tunnels[id].idleTimer}

\* An idle timer that fires finds no pass between its acquisition of the
\* entry's pool and the completion of its remote query.
C30_Step ==
  \A t \in timers :
    IdleFire(t) =>
      \A p \in Passes :
        ~(pass[p].pool = t.owner /\ pass[p].pc \in {"cursor", "query"})

\* C30: idle eviction never tears down an entry while a sync pass that
\* acquired its pool has not yet got the result of its remote query.
C30_NoEvictionInUse == [][C30_Step]_vars
====
